---------------------------- MODULE Spec2Model ----------------------------
(***************************************************************************)
(* A model of OBJ_viewer.cpp: main's start-up, loadOBJ (the line parser    *)
(* and the flattener), calculateSmoothNormals, the GPU upload, the render  *)
(* loop and the five GLFW callbacks.                                       *)
(*                                                                         *)
(* Representation.                                                         *)
(*  - A file is a sequence of lines; a line is [prefix, args], the first   *)
(*    whitespace-delimited word and the remaining words; a word is a       *)
(*    sequence of one-character strings, so that std::stoi, operator>> and *)
(*    std::getline(.., '/') are modelled by what they do to characters.    *)
(*  - A glm::vec3 / vec2 is a tuple of integers (coordinates in the model  *)
(*    are whole numbers).  An entry of the normal buffer is                *)
(*    [dir, lenSq], standing for the vector dir / sqrt(lenSq): a normal    *)
(*    copied from the file has lenSq = 1, glm::normalize(v) is             *)
(*    [v, v.v], which is not a number (lenSq = 0) exactly when v = 0.      *)
(*  - Angles and the camera distance are floats in the program; the model  *)
(*    keeps them in tenths (rotationX = 890 is 89.0 degrees,               *)
(*    cameraPosZ = 5 is 0.5).                                              *)
(***************************************************************************)
EXTENDS Integers, Sequences, FiniteSets, TLC

VARIABLES
    pc,               \* where main is
    exitStatus,       \* "running", or how the process ended
    stderrLog,        \* the messages written to std::cerr, in order
    gpuLive,          \* the GPU / window-system resources that exist
    releaseCount,     \* how often each resource has been released
    file,             \* the lines loadOBJ read
    temp_vertices, temp_uvs, temp_normals,      \* loadOBJ's raw pools
    vertexIndices, uvIndices, normalIndices,    \* loadOBJ's index streams
    vertices, normals, uvs,                     \* main's flat buffers
    synthCalled,      \* calculateSmoothNormals has been invoked
    mousePressed, firstMouse, lastX, lastY,     \* the globals of lines 86-97
    rotationX, rotationY, cameraPosZ, showWireframe,
    windowShouldClose,                          \* GLFW's close flag
    curX, curY,       \* where the pointer really is (the window system's)
    lastEvent,        \* the last callback delivered and the state it found
    framesDrawn,      \* iterations of the render loop that have drawn
    eventCount        \* callbacks delivered so far

loaderVars == <<file, temp_vertices, temp_uvs, temp_normals,
                vertexIndices, uvIndices, normalIndices,
                vertices, normals, uvs, synthCalled>>
viewVars == <<mousePressed, firstMouse, lastX, lastY, rotationX, rotationY,
              cameraPosZ, showWireframe, windowShouldClose, curX, curY,
              lastEvent, eventCount>>
procVars == <<pc, exitStatus, stderrLog, gpuLive, releaseCount, framesDrawn>>
vars == <<procVars, loaderVars, viewVars>>

---------------------------------------------------------------------------
(* Bounds of the model. *)
MaxV == 3          \* "v" records in a generated file
MaxVT == 1         \* "vt" records in a generated file
MaxVN == 2         \* "vn" records in a generated file
MaxFaces == 2      \* faces in a file of the multi-face family
MaxEvents == 5     \* callbacks delivered in one run
MaxFrames == 2     \* frames drawn in one run

(* Program constants (angles and distances in tenths). *)
IntMax == 2147483647
RotXMax == 890
ZoomMin == 5
ZoomMax == 100
InitCameraZ == 30
InitLastX == 400
InitLastY == 300

---------------------------------------------------------------------------
(* Characters and words. *)
DigitChar == <<"0", "1", "2", "3", "4", "5", "6", "7", "8", "9">>

IsDigit(c) == \E d \in 1..10 : DigitChar[d] = c

DigitVal(c) == (CHOOSE d \in 1..10 : DigitChar[d] = c) - 1

\* The word of a number -9..9, as the file spells it.
NumWord(k) == IF k < 0 THEN <<"-", DigitChar[1 - k]>> ELSE <<DigitChar[k + 1]>>

RECURSIVE DigitRun(_, _)
\* How many digits the word s holds from position i on.
DigitRun(s, i) ==
    IF i <= Len(s) /\ IsDigit(s[i]) THEN 1 + DigitRun(s, i + 1) ELSE 0

RECURSIVE DigitsFrom(_, _, _, _)
\* The value of acc followed by the n digits of s from position i on; -1
\* when it exceeds the largest int.
DigitsFrom(s, i, n, acc) ==
    IF n = 0 \/ acc < 0 THEN acc
    ELSE DigitsFrom(s, i + 1, n - 1,
                    IF acc > (IntMax - DigitVal(s[i])) \div 10 THEN -1
                    ELSE 10 * acc + DigitVal(s[i]))

DigitsValue(s, i, n) == DigitsFrom(s, i, n, 0)

\* The longest numeric prefix of a word: an optional sign and digits.
\* ok is FALSE when there is no digit; big when the digits exceed an int
\* (the model's words never spell the one negative number, -2147483648,
\* whose magnitude does); rest is what the scan left unread.
ScanInt(s) ==
    LET signed == Len(s) > 0 /\ s[1] \in {"-", "+"}
        start == IF signed THEN 2 ELSE 1
        n == DigitRun(s, start)
        mag == DigitsValue(s, start, n)
    IN [ok |-> n > 0,
        big |-> mag < 0,
        val |-> IF signed /\ s[1] = "-" THEN 0 - mag ELSE mag,
        rest |-> SubSeq(s, start + n, Len(s))]

\* Like atoi: 0 where std::stoi throws.
StoiLenient(s) ==
    LET r == ScanInt(s)
    IN [ok |-> TRUE, val |-> IF r.ok /\ ~r.big THEN r.val ELSE 0]

\* std::stoi: converts the numeric prefix and ignores what follows; throws
\* std::invalid_argument when there is none, std::out_of_range beyond int.
Stoi(s) ==
    LET r == ScanInt(s)
    IN [ok |-> r.ok /\ ~r.big, val |-> r.val]

\* Storing an int into a std::vector<unsigned int>: v mod 2^32, kept as
\* hi * 2^31 + lo (TLC's integers end at 2^31 - 1).
ToUnsigned(v) ==
    IF v >= 0 THEN [hi |-> 0, lo |-> v]
    ELSE [hi |-> 1, lo |-> (v + IntMax) + 1]

\* u > 0 and u <= size, for an unsigned u and a container's size.
Positive(u) == u.hi = 1 \/ u.lo > 0
AtMost(u, size) == u.hi = 0 /\ u.lo <= size

RECURSIVE SplitSlash(_)
\* The fields std::getline(viss, token, '/') reads from a corner, in order.
\* (A last read that finds the stream exhausted fails; it is counted here as
\* an empty field, which the caller treats the same way: nothing is pushed.)
SplitSlash(s) ==
    LET cut == IF \E i \in 1..Len(s) : s[i] = "/"
               THEN CHOOSE i \in 1..Len(s) :
                        s[i] = "/" /\ \A j \in 1..(i - 1) : s[j] # "/"
               ELSE 0
    IN IF cut = 0 THEN <<s>>
       ELSE <<SubSeq(s, 1, cut - 1)>> \o SplitSlash(SubSeq(s, cut + 1, Len(s)))

\* Field k of a corner word, empty when the corner has no such field.
Field(s, k) == LET f == SplitSlash(s) IN IF k <= Len(f) THEN f[k] ELSE <<>>

RECURSIVE ExtractNumbers(_, _, _, _)
\* iss >> a >> b >> ...: count numbers read from the words that remain.
\* A word with no numeric prefix stores 0 and fails the stream; once the
\* stream has failed or run out, the targets are left as they were, which
\* for a default-constructed glm vector is an indeterminate value (junk).
\* A word read only in part leaves its remainder for the next extraction.
ExtractNumbers(words, count, failed, junk) ==
    IF count = 0 THEN <<>>
    ELSE IF failed \/ words = <<>>
         THEN <<junk>> \o ExtractNumbers(words, count - 1, TRUE, junk)
         ELSE LET r == ScanInt(Head(words))
              IN IF ~r.ok
                 THEN <<0>> \o ExtractNumbers(words, count - 1, TRUE, junk)
                 ELSE <<r.val>> \o
                      ExtractNumbers(IF r.rest = <<>> THEN Tail(words)
                                     ELSE <<r.rest>> \o Tail(words),
                                     count - 1, FALSE, junk)

\* iss >> word: the k-th remaining word, the empty string when none is left.
WordAt(args, k) == IF k <= Len(args) THEN args[k] ELSE <<>>

---------------------------------------------------------------------------
(* Vectors. *)
Zero3 == <<0, 0, 0>>
Add3(a, b) == <<a[1] + b[1], a[2] + b[2], a[3] + b[3]>>
Sub3(a, b) == <<a[1] - b[1], a[2] - b[2], a[3] - b[3]>>
Dot3(a, b) == a[1] * b[1] + a[2] * b[2] + a[3] * b[3]
Cross3(a, b) == <<a[2] * b[3] - a[3] * b[2],
                  a[3] * b[1] - a[1] * b[3],
                  a[1] * b[2] - a[2] * b[1]>>

\* A normal as the file gives it (not rescaled).
RawNormal(v) == [dir |-> v, lenSq |-> 1]

\* glm::normalize(v) = v * inversesqrt(dot(v, v)).
Normalize(v) == [dir |-> v, lenSq |-> Dot3(v, v)]

IsUnit(n) == n.lenSq > 0 /\ Dot3(n.dir, n.dir) = n.lenSq
IsNotANumber(n) == n.lenSq = 0


---------------------------------------------------------------------------
(* loadOBJ, lines 403-472: the line parser. *)

\* The locals of loadOBJ as the parse begins; thrown is set when std::stoi
\* throws, which nothing catches.
EmptyParse ==
    [tv |-> <<>>, tu |-> <<>>, tn |-> <<>>,
     vi |-> <<>>, ui |-> <<>>, ni |-> <<>>, thrown |-> FALSE]

FaceVerticesFan124(args) ==
    LET v1 == WordAt(args, 1)
        v2 == WordAt(args, 2)
        v3 == WordAt(args, 3)
        v4 == WordAt(args, 4)
    IN IF v4 # <<>> THEN <<v1, v2, v3, v1, v2, v4>> ELSE <<v1, v2, v3>>

\* face_vertices: the corner words of a face's triangles.
FaceVertices(args) ==
    LET v1 == WordAt(args, 1)
        v2 == WordAt(args, 2)
        v3 == WordAt(args, 3)
        v4 == WordAt(args, 4)
        isQuad == v4 # <<>>
    IN IF isQuad THEN <<v1, v2, v3, v1, v3, v4>> ELSE <<v1, v2, v3>>

\* One pass of the inner loop (lines 445-468) over a corner word.
ParseCorner(st, word) ==
    LET p == Stoi(Field(word, 1))
        f2 == Field(word, 2)
        f3 == Field(word, 3)
        t == Stoi(f2)
        n == Stoi(f3)
    IN IF ~p.ok THEN [st EXCEPT !.thrown = TRUE]
       ELSE IF f2 # <<>> /\ ~t.ok THEN [st EXCEPT !.thrown = TRUE]
       ELSE IF f3 # <<>> /\ ~n.ok THEN [st EXCEPT !.thrown = TRUE]
       ELSE [st EXCEPT
               !.vi = Append(@, ToUnsigned(p.val)),
               !.ui = IF f2 # <<>> THEN Append(@, ToUnsigned(t.val)) ELSE @,
               !.ni = IF f3 # <<>> THEN Append(@, ToUnsigned(n.val)) ELSE @]

RECURSIVE ParseCorners(_, _)
ParseCorners(st, words) ==
    IF words = <<>> \/ st.thrown THEN st
    ELSE ParseCorners(ParseCorner(st, Head(words)), Tail(words))

\* The body of the while loop for one line.
ParseLine(st, line, junk) ==
    CASE line.prefix = "v" ->
            [st EXCEPT !.tv = Append(@, ExtractNumbers(line.args, 3, FALSE, junk))]
      [] line.prefix = "vt" ->
            [st EXCEPT !.tu = Append(@, ExtractNumbers(line.args, 2, FALSE, junk))]
      [] line.prefix = "vn" ->
            [st EXCEPT !.tn = Append(@, ExtractNumbers(line.args, 3, FALSE, junk))]
      [] line.prefix = "f" -> ParseCorners(st, FaceVertices(line.args))
      [] OTHER -> st

RECURSIVE ParseLines(_, _, _, _)
\* The while loop from line k on; junk[k] is what line k's unread targets hold.
ParseLines(lines, k, st, junk) ==
    IF k > Len(lines) \/ st.thrown THEN st
    ELSE ParseLines(lines, k + 1, ParseLine(st, lines[k], junk[k]), junk)

---------------------------------------------------------------------------
(* loadOBJ, lines 474-494: the flattener. *)

\* Line 476, for the corner at 0-based position i - 1 of vertexIndices.
PositionValid(st, i) == Positive(st.vi[i]) /\ AtMost(st.vi[i], Len(st.tv))

\* Lines 481-482.
UVResolved(st, i) ==
    /\ st.ui # <<>>
    /\ i <= Len(st.ui)
    /\ Positive(st.ui[i])
    /\ AtMost(st.ui[i], Len(st.tu))

UVsForCornerNoDefault(st, i) ==
    IF UVResolved(st, i) THEN <<st.tu[st.ui[i].lo]>> ELSE <<>>

\* Lines 481-486: what a kept corner appends to out_uvs.
UVsForCorner(st, i) ==
    IF UVResolved(st, i) THEN <<st.tu[st.ui[i].lo]>>
    ELSE IF st.tu # <<>> THEN <<<<0, 0>>>>
    ELSE <<>>

\* Lines 489-490.
NormalResolved(st, i) ==
    /\ st.ni # <<>>
    /\ i <= Len(st.ni)
    /\ Positive(st.ni[i])
    /\ AtMost(st.ni[i], Len(st.tn))

NormalsForCornerFirst(st, i) ==
    IF NormalResolved(st, i) THEN <<RawNormal(st.tn[1])>> ELSE <<>>

\* Lines 489-492: what a kept corner appends to out_normals.
NormalsForCorner(st, i) ==
    IF NormalResolved(st, i) THEN <<RawNormal(st.tn[st.ni[i].lo])>> ELSE <<>>

FlattenCornerKeepsBad(st, i) ==
    IF PositionValid(st, i)
    THEN [v |-> <<st.tv[st.vi[i].lo]>>, t |-> UVsForCorner(st, i),
          n |-> NormalsForCorner(st, i)]
    ELSE [v |-> <<Zero3>>, t |-> UVsForCorner(st, i),
          n |-> NormalsForCorner(st, i)]

\* One pass of the loop of line 475: what corner i appends to each buffer.
FlattenCorner(st, i) ==
    IF PositionValid(st, i)
    THEN [v |-> <<st.tv[st.vi[i].lo]>>, t |-> UVsForCorner(st, i),
          n |-> NormalsForCorner(st, i)]
    ELSE [v |-> <<>>, t |-> <<>>, n |-> <<>>]

\* out_vertices, out_uvs and out_normals after one more pass of the loop.
PushCorner(out, c) == [v |-> out.v \o c.v, t |-> out.t \o c.t, n |-> out.n \o c.n]

RECURSIVE FlattenFrom(_, _, _)
\* The loop of line 475 from corner i on, the buffers holding out so far.
FlattenFrom(st, i, out) ==
    IF i > Len(st.vi) THEN out
    ELSE FlattenFrom(st, i + 1, PushCorner(out, FlattenCorner(st, i)))

\* Lines 474-494: the three output buffers.
Flatten(st) == FlattenFrom(st, 1, [v |-> <<>>, t |-> <<>>, n |-> <<>>])

---------------------------------------------------------------------------
(* calculateSmoothNormals, lines 499-548 (vectors before normalisation are *)
(* plain tuples).                                                          *)

\* vertexMap[key]: the indices of the flat vertices at the position of i.
SamePosition(vs, i) == {j \in 1..Len(vs) : vs[j] = vs[i]}

RECURSIVE FaceNormalPass(_, _, _)
\* The loop of lines 510-526 from the group that starts at (1-based) i.
FaceNormalPass(vs, ns, i) ==
    IF i > Len(vs) THEN ns
    ELSE IF i + 2 <= Len(vs)
         THEN LET edge1 == Sub3(vs[i + 1], vs[i])
                  edge2 == Sub3(vs[i + 2], vs[i])
                  faceNormal == Cross3(edge1, edge2)
              IN FaceNormalPass(vs,
                     [ns EXCEPT ![i] = Add3(@, faceNormal),
                                ![i + 1] = Add3(@, faceNormal),
                                ![i + 2] = Add3(@, faceNormal)],
                     i + 3)
         ELSE FaceNormalPass(vs, ns, i + 3)

RECURSIVE SumOver(_, _)
SumOver(ns, S) ==
    IF S = {} THEN Zero3
    ELSE LET j == CHOOSE x \in S : TRUE IN Add3(ns[j], SumOver(ns, S \ {j}))

AveragedNormalLoneRaw(vs, acc, i) ==
    IF Cardinality(SamePosition(vs, i)) > 1
    THEN Normalize(SumOver(acc, SamePosition(vs, i)))
    ELSE RawNormal(acc[i])

\* Lines 529-547, for the entry of vertexMap that holds i.
AveragedNormal(vs, acc, i) ==
    IF Cardinality(SamePosition(vs, i)) > 1
    THEN Normalize(SumOver(acc, SamePosition(vs, i)))
    ELSE Normalize(acc[i])

RECURSIVE Zeros(_)
\* normals.resize(n, glm::vec3(0.0f)), line 190.
Zeros(n) == IF n = 0 THEN <<>> ELSE Append(Zeros(n - 1), Zero3)

\* The accumulators after the loop of lines 510-526, from zeroed normals.
FaceNormalSums(vs) == FaceNormalPass(vs, Zeros(Len(vs)), 1)

RECURSIVE AveragedPrefix(_, _, _)
AveragedPrefix(vs, acc, k) ==
    IF k = 0 THEN <<>>
    ELSE Append(AveragedPrefix(vs, acc, k - 1), AveragedNormal(vs, acc, k))

\* calculateSmoothNormals on zeroed normals: the normals it leaves.
CalculateSmoothNormals(vs) == AveragedPrefix(vs, FaceNormalSums(vs), Len(vs))

---------------------------------------------------------------------------
(* The files the model reads: generated OBJ texts. *)

Slash == <<"/">>
P(p) == NumWord(p)
PT(p, t) == NumWord(p) \o Slash \o NumWord(t)
PN(p, n) == NumWord(p) \o Slash \o Slash \o NumWord(n)
PTN(p, t, n) == NumWord(p) \o Slash \o NumWord(t) \o Slash \o NumWord(n)

\* The k-th position, texture coordinate and normal a generated file declares.
PoolPosition(k) ==
    CASE k = 1 -> <<0, 0, 0>>
      [] k = 2 -> <<1, 0, 0>>
      [] k = 3 -> <<0, 1, 0>>
      [] k = 4 -> <<0, 0, 1>>
      [] OTHER -> <<1, 1, k - 4>>
PoolUV(k) == <<k, 1>>
PoolNormal(k) ==
    CASE k = 1 -> <<0, 0, 1>>
      [] k = 2 -> <<0, 1, 0>>
      [] k = 3 -> <<1, 0, 0>>
      [] OTHER -> <<k, 1, 1>>

RECURSIVE WordsOf(_)
WordsOf(v) == IF v = <<>> THEN <<>> ELSE <<NumWord(Head(v))>> \o WordsOf(Tail(v))

Line(prefix, args) == [prefix |-> prefix, args |-> args]

RECURSIVE VLines(_)
VLines(n) == IF n = 0 THEN <<>>
             ELSE Append(VLines(n - 1), Line("v", WordsOf(PoolPosition(n))))
RECURSIVE VTLines(_)
VTLines(n) == IF n = 0 THEN <<>>
              ELSE Append(VTLines(n - 1), Line("vt", WordsOf(PoolUV(n))))
RECURSIVE VNLines(_)
VNLines(n) == IF n = 0 THEN <<>>
              ELSE Append(VNLines(n - 1), Line("vn", WordsOf(PoolNormal(n))))

Header(nv, nvt, nvn) == VLines(nv) \o VTLines(nvt) \o VNLines(nvn)

RECURSIVE FaceLines(_)
FaceLines(faces) ==
    IF faces = <<>> THEN <<>>
    ELSE <<Line("f", Head(faces))>> \o FaceLines(Tail(faces))

\* Sequences over S of length at most n.
RECURSIVE SeqsUpTo(_, _)
SeqsUpTo(S, n) ==
    IF n = 0 THEN {<<>>}
    ELSE LET shorter == SeqsUpTo(S, n - 1)
         IN shorter \cup {Append(q, x) : q \in {r \in shorter : Len(r) = n - 1}, x \in S}

\* One face whose 3 or 4 corners mix every corner format and bad indices.
FormatWords == {P(1), PT(2, 1), PN(3, 2), PTN(2, 1, 1), P(0), P(-1)}
FormatFaces == {<<a, b, c>> : a \in FormatWords, b \in FormatWords, c \in FormatWords}
                 \cup {<<a, b, c, d>> : a \in FormatWords, b \in FormatWords,
                                        c \in FormatWords, d \in FormatWords}
FormatFiles ==
    {Header(MaxV, nvt, nvn) \o FaceLines(<<face>>) :
        nvt \in {0, MaxVT}, nvn \in 0..MaxVN, face \in FormatFaces}

\* Several faces, with geometry: both windings, a quad, explicit normals,
\* an index past the pool, a repeated corner.
GeometryFaces ==
    {<<P(1), P(2), P(3)>>, <<P(1), P(3), P(2)>>, <<P(1), P(2), P(3), P(4)>>,
     <<PN(2, 1), PN(3, 2), PN(1, 1)>>, <<P(5), P(2), P(3), P(4)>>,
     <<P(2), P(3), P(4)>>, <<P(1), P(2), P(3), P(2)>>}
GeometryFiles ==
    {Header(nv, 0, nvn) \o FaceLines(faces) :
        nv \in {0, 2, MaxV, MaxV + 1}, nvn \in {0, MaxVN},
        faces \in SeqsUpTo(GeometryFaces, MaxFaces)}

\* Records whose numeric words do not parse, short records, other records.
X == <<"x">>
Comment == Line("#", <<X>>)
GoodFace == Line("f", <<PN(1, 1), PN(2, 1), PN(3, 1)>>)
MalformedLines ==
    {Line("f", <<X, P(1), P(2)>>),
     Line("f", <<P(1), PT(2, 1) \o X, P(3)>>),
     Line("f", <<P(1), P(2), NumWord(3) \o Slash \o X>>),
     Line("f", <<P(1), P(2), NumWord(3) \o Slash \o Slash \o X>>),
     Line("f", <<P(1), P(2)>>),
     Line("f", <<Slash \o NumWord(1), P(2), P(3)>>),
     Line("f", <<P(1), P(2), P(3), P(1), X>>),
     Line("f", <<P(1) \o X, P(2), P(3)>>),
     Line("f", <<P(1), P(2), P(3), X>>),
     Line("f", <<P(1), P(2), <<"9", "9", "9", "9", "9", "9", "9", "9", "9", "9">>>>),
     Line("v", <<X, P(0), P(0)>>),
     Line("v", <<P(1), X, P(0)>>),
     Line("v", <<P(1) \o X, P(1), P(1)>>),
     Line("v", <<P(1)>>),
     Line("vt", <<P(1), X>>),
     Line("vn", <<P(0), P(0), X>>),
     Line("vn", <<>>)}
MalformedFiles ==
    {Header(MaxV, 1, 1) \o <<Comment, bad, GoodFace>> : bad \in MalformedLines}

LoadFiles == FormatFiles \cup GeometryFiles \cup MalformedFiles

\* The file of the whole-program specification: a mesh that loads.
ViewFiles == {Header(MaxV, 1, 1) \o <<Comment, GoodFace>>}

\* The files of the parsing specification: the mesh that loads and the
\* malformed ones.
ParseFiles == ViewFiles \cup MalformedFiles

\* What an unread target may hold.
JunkValues == {0, 1}

\* Line k leaves some of its targets unread.
LeavesUnread(line) ==
    /\ line.prefix \in {"v", "vt", "vn"}
    /\ LET n == IF line.prefix = "vt" THEN 2 ELSE 3
       IN ExtractNumbers(line.args, n, FALSE, 0) # ExtractNumbers(line.args, n, FALSE, 1)

\* One indeterminate value per line that needs one.
JunkChoices(lines) ==
    LET need == {k \in 1..Len(lines) : LeavesUnread(lines[k])}
    IN {[k \in 1..Len(lines) |-> IF k \in need THEN j[k] ELSE 0] :
            j \in [need -> JunkValues]}

---------------------------------------------------------------------------
(* main, lines 118-325. *)

Resources == {"glfw", "window", "shaderProgram", "vao", "vbo", "nbo"}

\* What the callbacks are given: keys and buttons with their actions,
\* pointer positions in pixels, scroll offsets.
Keys == {"W", "ESCAPE", "SPACE"}
KeyActions == {"PRESS", "RELEASE"}
Buttons == {"LEFT", "RIGHT"}
ButtonActions == {"PRESS", "RELEASE"}
CursorXs == {300, 400, 500}
CursorYs == {300, 500}
ScrollOffsets == {-50, -5, 5, 50}

\* The globals of lines 80-97 and main's locals as main begins.
InitProgram ==
    /\ pc = "start"
    /\ exitStatus = "running"
    /\ stderrLog = <<>>
    /\ gpuLive = {}
    /\ releaseCount = [r \in Resources |-> 0]
    /\ file = <<>>
    /\ temp_vertices = <<>> /\ temp_uvs = <<>> /\ temp_normals = <<>>
    /\ vertexIndices = <<>> /\ uvIndices = <<>> /\ normalIndices = <<>>
    /\ vertices = <<>> /\ normals = <<>> /\ uvs = <<>>
    /\ synthCalled = FALSE
    /\ mousePressed = FALSE
    /\ firstMouse = TRUE
    /\ lastX = InitLastX
    /\ lastY = InitLastY
    /\ rotationX = 0
    /\ rotationY = 0
    /\ cameraPosZ = InitCameraZ
    /\ showWireframe = FALSE
    /\ windowShouldClose = FALSE
    /\ lastEvent = <<"none">>
    /\ framesDrawn = 0
    /\ eventCount = 0

\* The pointer is anywhere when the program starts.
Init == InitProgram /\ curX \in CursorXs /\ curY \in CursorYs

\* The start of the runs in which the pointer never moves.
InitPointerAtRest == InitProgram /\ curX = InitLastX /\ curY = InitLastY

\* return -1 from main, after the message.
ExitWith(message) ==
    /\ stderrLog' = Append(stderrLog, message)
    /\ exitStatus' = "exit(-1)"
    /\ pc' = "exited"

Release(count, S) == [r \in Resources |-> IF r \in S THEN count[r] + 1 ELSE count[r]]

\* Lines 119-125.
CheckArgs ==
    /\ pc = "start"
    /\ \E argc \in 1..3 :
          IF argc # 2
          THEN ExitWith("Usage")
          ELSE /\ pc' = "glfwInit"
               /\ UNCHANGED <<exitStatus, stderrLog>>
    /\ UNCHANGED <<gpuLive, releaseCount, framesDrawn, loaderVars, viewVars>>

\* Lines 127-137.
GlfwInit ==
    /\ pc = "glfwInit"
    /\ \E ok \in BOOLEAN :
          IF ok
          THEN /\ gpuLive' = gpuLive \cup {"glfw"}
               /\ pc' = "createWindow"
               /\ UNCHANGED <<exitStatus, stderrLog>>
          ELSE /\ ExitWith("Failed to initialize GLFW")
               /\ UNCHANGED gpuLive
    /\ UNCHANGED <<releaseCount, framesDrawn, loaderVars, viewVars>>

\* Lines 139-152.
CreateWindow ==
    /\ pc = "createWindow"
    /\ \E ok \in BOOLEAN :
          IF ok
          THEN /\ gpuLive' = gpuLive \cup {"window"}
               /\ pc' = "glewInit"
               /\ UNCHANGED <<exitStatus, stderrLog, releaseCount>>
          ELSE /\ ExitWith("Failed to create GLFW window")
               /\ gpuLive' = gpuLive \ {"glfw"}
               /\ releaseCount' = Release(releaseCount, {"glfw"})
    /\ UNCHANGED <<framesDrawn, loaderVars, viewVars>>

\* Lines 154-167.
GlewInit ==
    /\ pc = "glewInit"
    /\ \E ok \in BOOLEAN :
          IF ok
          THEN /\ pc' = "compileShaders"
               /\ UNCHANGED <<exitStatus, stderrLog>>
          ELSE ExitWith("Failed to initialize GLEW")
    /\ UNCHANGED <<gpuLive, releaseCount, framesDrawn, loaderVars, viewVars>>

\* Lines 169-173, and compileShaders (lines 327-375).
CompileShaders ==
    /\ pc = "compileShaders"
    /\ \E ok \in BOOLEAN :
          IF ok
          THEN /\ gpuLive' = gpuLive \cup {"shaderProgram"}
               /\ pc' = "loadOBJ"
               /\ UNCHANGED <<exitStatus, stderrLog>>
          ELSE /\ stderrLog' = Append(stderrLog, "ERROR::SHADER")
               /\ exitStatus' = "exit(-1)"
               /\ pc' = "exited"
               /\ UNCHANGED gpuLive
    /\ UNCHANGED <<releaseCount, framesDrawn, loaderVars, viewVars>>

LoadFailureStatusZero == "exit(0)"

\* Line 183: what main returns when loadOBJ returns false.
LoadFailureStatus == "exit(-1)"

\* Lines 180-184 with loadOBJ's lines 397-401: the file does not open.
LoadOBJCannotOpen ==
    /\ pc = "loadOBJ"
    /\ stderrLog' = stderrLog \o <<"Cannot open file", "Failed to load OBJ file">>
    /\ exitStatus' = LoadFailureStatus
    /\ pc' = "exited"
    /\ UNCHANGED <<gpuLive, releaseCount, framesDrawn, loaderVars, viewVars>>

\* Lines 180-185 with loadOBJ's lines 403-496: the file opens and holds one
\* of the texts of F.  An exception of std::stoi is caught nowhere: the
\* process is terminated from inside loadOBJ and main's buffers stay empty.
LoadOBJ(F) ==
    /\ pc = "loadOBJ"
    /\ \E text \in F :
       \E junk \in JunkChoices(text) :
       \E st \in {ParseLines(text, 1, EmptyParse, junk)} :
       \E out \in {IF st.thrown THEN <<>> ELSE Flatten(st)} :
             /\ file' = text
             /\ IF st.thrown
                THEN /\ pc' = "aborted"
                     /\ exitStatus' = "terminate"
                     /\ UNCHANGED <<temp_vertices, temp_uvs, temp_normals,
                                    vertexIndices, uvIndices, normalIndices,
                                    vertices, normals, uvs>>
                ELSE /\ pc' = "normals"
                     /\ exitStatus' = exitStatus
                     /\ temp_vertices' = st.tv
                     /\ temp_uvs' = st.tu
                     /\ temp_normals' = st.tn
                     /\ vertexIndices' = st.vi
                     /\ uvIndices' = st.ui
                     /\ normalIndices' = st.ni
                     /\ vertices' = out.v
                     /\ uvs' = out.t
                     /\ normals' = out.n
    /\ UNCHANGED <<stderrLog, gpuLive, releaseCount, framesDrawn, synthCalled, viewVars>>

\* The condition of line 188.
NeedsSynthesis(vs, ns) == ns = <<>> \/ Len(ns) # Len(vs)

\* Lines 187-192.
NormalsStep ==
    /\ pc = "normals"
    /\ IF NeedsSynthesis(vertices, normals)
       THEN /\ normals' = CalculateSmoothNormals(vertices)
            /\ synthCalled' = TRUE
       ELSE UNCHANGED <<normals, synthCalled>>
    /\ pc' = "upload"
    /\ UNCHANGED <<exitStatus, stderrLog, gpuLive, releaseCount, framesDrawn,
                   file, temp_vertices, temp_uvs, temp_normals,
                   vertexIndices, uvIndices, normalIndices, vertices, uvs, viewVars>>

\* Lines 194-243.
Upload ==
    /\ pc = "upload"
    /\ gpuLive' = gpuLive \cup {"vao", "vbo", "nbo"}
    /\ pc' = "loopTop"
    /\ UNCHANGED <<exitStatus, stderrLog, releaseCount, framesDrawn, loaderVars, viewVars>>

DrawFrameWithoutTest ==
    /\ pc = "loopTop"
    /\ framesDrawn < MaxFrames
    /\ framesDrawn' = framesDrawn + 1
    /\ pc' = "pollEvents"
    /\ UNCHANGED <<exitStatus, stderrLog, gpuLive, releaseCount, loaderVars, viewVars>>

\* Lines 246-313: the loop's test finds the flag clear and a frame is drawn.
DrawFrame ==
    /\ pc = "loopTop"
    /\ ~windowShouldClose
    /\ framesDrawn < MaxFrames
    /\ framesDrawn' = framesDrawn + 1
    /\ pc' = "pollEvents"
    /\ UNCHANGED <<exitStatus, stderrLog, gpuLive, releaseCount, loaderVars, viewVars>>

\* Line 246: the loop's test finds the flag set.
LeaveLoop ==
    /\ pc = "loopTop"
    /\ windowShouldClose
    /\ pc' = "cleanup"
    /\ UNCHANGED <<exitStatus, stderrLog, gpuLive, releaseCount, framesDrawn,
                   loaderVars, viewVars>>

\* Line 314: glfwPollEvents returns.
PollReturns ==
    /\ pc = "pollEvents"
    /\ pc' = "loopTop"
    /\ UNCHANGED <<exitStatus, stderrLog, gpuLive, releaseCount, framesDrawn,
                   loaderVars, viewVars>>

\* What lines 318-323 release (glfwTerminate: the window and the library).
CleanedUp == {"vao", "vbo", "nbo", "shaderProgram", "window", "glfw"}

\* Lines 317-324.
Cleanup ==
    /\ pc = "cleanup"
    /\ gpuLive' = gpuLive \ CleanedUp
    /\ releaseCount' = Release(releaseCount, CleanedUp)
    /\ exitStatus' = "exit(0)"
    /\ pc' = "exited"
    /\ UNCHANGED <<stderrLog, framesDrawn, loaderVars, viewVars>>

---------------------------------------------------------------------------
(* The callbacks, lines 550-614, delivered from inside glfwPollEvents. *)

Delivering(kind) ==
    /\ pc = "pollEvents"
    /\ eventCount < MaxEvents
    /\ eventCount' = eventCount + 1
    /\ lastEvent' = kind
    /\ UNCHANGED <<procVars, loaderVars>>

\* key_callback, lines 550-562.
KeyCallback ==
    /\ \E key \in Keys, action \in KeyActions :
          /\ Delivering(<<"key", key, action>>)
          /\ showWireframe' =
                IF action = "PRESS" /\ key = "W" THEN ~showWireframe ELSE showWireframe
          /\ windowShouldClose' =
                IF action = "PRESS" /\ key = "ESCAPE" THEN TRUE ELSE windowShouldClose
    /\ UNCHANGED <<mousePressed, firstMouse, lastX, lastY, rotationX, rotationY,
                   cameraPosZ, curX, curY>>

\* framebuffer_size_callback, lines 564-566: only the viewport changes.
FramebufferSizeCallback ==
    /\ Delivering(<<"resize">>)
    /\ UNCHANGED <<mousePressed, firstMouse, lastX, lastY, rotationX, rotationY,
                   cameraPosZ, showWireframe, windowShouldClose, curX, curY>>

ClampRotationXUpperOnly(r) == IF r > RotXMax THEN RotXMax ELSE r

\* Lines 593-594.
ClampRotationX(r) ==
    LET upper == IF r > RotXMax THEN RotXMax ELSE r
    IN IF upper < 0 - RotXMax THEN 0 - RotXMax ELSE upper

SensitivityOne(offset) == 10 * offset

\* Lines 585-587: an offset in pixels times 0.5, in tenths of a degree.
Sensitivity(offset) == 5 * offset

\* mouse_callback, lines 568-595; the pointer moves to (xpos, ypos).
MouseCallback ==
    /\ \E xpos \in CursorXs, ypos \in CursorYs :
          /\ Delivering(<<"motion">>)
          /\ curX' = xpos
          /\ curY' = ypos
          /\ IF ~mousePressed
             THEN UNCHANGED <<firstMouse, lastX, lastY, rotationX, rotationY>>
             ELSE IF firstMouse
             THEN /\ lastX' = xpos
                  /\ lastY' = ypos
                  /\ firstMouse' = FALSE
                  /\ UNCHANGED <<rotationX, rotationY>>
             ELSE /\ lastX' = xpos
                  /\ lastY' = ypos
                  /\ rotationY' = rotationY + Sensitivity(xpos - lastX)
                  /\ rotationX' = ClampRotationX(rotationX + Sensitivity(ypos - lastY))
                  /\ UNCHANGED firstMouse
    /\ UNCHANGED <<mousePressed, cameraPosZ, showWireframe, windowShouldClose>>

\* Lines 601-602.
ClampCameraZ(z) ==
    LET lower == IF z < ZoomMin THEN ZoomMin ELSE z
    IN IF lower > ZoomMax THEN ZoomMax ELSE lower

\* scroll_callback, lines 597-603 (yoffset * 0.2 in tenths).
ScrollCallback ==
    /\ \E yoffset \in ScrollOffsets :
          /\ Delivering(<<"scroll", yoffset>>)
          /\ cameraPosZ' = ClampCameraZ(cameraPosZ - 2 * yoffset)
    /\ UNCHANGED <<mousePressed, firstMouse, lastX, lastY, rotationX, rotationY,
                   showWireframe, windowShouldClose, curX, curY>>

\* mouse_button_callback, lines 605-614.
MouseButtonCallback ==
    /\ \E button \in Buttons, action \in ButtonActions :
          /\ Delivering(<<"button", button, action>>)
          /\ mousePressed' =
                IF button = "LEFT"
                THEN IF action = "PRESS" THEN TRUE
                     ELSE IF action = "RELEASE" THEN FALSE ELSE mousePressed
                ELSE mousePressed
          /\ firstMouse' =
                IF button = "LEFT" /\ action = "PRESS" THEN TRUE ELSE firstMouse
    /\ UNCHANGED <<lastX, lastY, rotationX, rotationY, cameraPosZ, showWireframe,
                   windowShouldClose, curX, curY>>

---------------------------------------------------------------------------
(* The specifications. *)

Startup == CheckArgs \/ GlfwInit \/ CreateWindow \/ GlewInit \/ CompileShaders

\* The whole program, every callback included, on a mesh that loads.
Next ==
    \/ Startup
    \/ LoadOBJCannotOpen
    \/ LoadOBJ(ViewFiles)
    \/ NormalsStep
    \/ Upload
    \/ DrawFrame
    \/ LeaveLoop
    \/ PollReturns
    \/ Cleanup
    \/ KeyCallback
    \/ FramebufferSizeCallback
    \/ MouseCallback
    \/ ScrollCallback
    \/ MouseButtonCallback

Spec == Init /\ [][Next]_vars

\* main up to the render loop, on every generated file.
NextLoad ==
    \/ Startup
    \/ LoadOBJCannotOpen
    \/ LoadOBJ(LoadFiles)
    \/ NormalsStep
    \/ Upload

SpecLoad == InitPointerAtRest /\ [][NextLoad]_vars

\* The whole program on the malformed files, the keyboard its only input.
NextParse ==
    \/ Startup
    \/ LoadOBJCannotOpen
    \/ LoadOBJ(ParseFiles)
    \/ NormalsStep
    \/ Upload
    \/ DrawFrame
    \/ LeaveLoop
    \/ PollReturns
    \/ Cleanup
    \/ KeyCallback

SpecParse == InitPointerAtRest /\ [][NextParse]_vars

\* The program with what its scheduling gives: main is one
\* thread and glfwPollEvents (line 314) does not block, so the poll returns,
\* the loop's test of line 246 is made and the cleanup of lines 317-324 runs.
Fairness == WF_vars(PollReturns) /\ WF_vars(LeaveLoop) /\ WF_vars(Cleanup)

\* The events delivered while the user quits: keys, buttons, pointer motion.
NextExit ==
    \/ Startup
    \/ LoadOBJCannotOpen
    \/ LoadOBJ(ViewFiles)
    \/ NormalsStep
    \/ Upload
    \/ DrawFrame
    \/ LeaveLoop
    \/ PollReturns
    \/ Cleanup
    \/ KeyCallback
    \/ MouseCallback
    \/ MouseButtonCallback

SpecFair == InitPointerAtRest /\ [][NextExit]_vars /\ Fairness

---------------------------------------------------------------------------
(* What the claims speak of. *)

\* loadOBJ's locals as it returned.
Loaded ==
    [tv |-> temp_vertices, tu |-> temp_uvs, tn |-> temp_normals,
     vi |-> vertexIndices, ui |-> uvIndices, ni |-> normalIndices,
     thrown |-> FALSE]

AfterLoad == pc = "normals"
AfterNormals ==
    \/ pc \in {"upload", "loopTop", "pollEvents", "cleanup"}
    \/ pc = "exited" /\ exitStatus = "exit(0)"

RECURSIVE CornerWords(_)
\* The corner words of the file's triangles, in the order they are parsed.
CornerWords(lines) ==
    IF lines = <<>> THEN <<>>
    ELSE (IF Head(lines).prefix = "f" THEN FaceVertices(Head(lines).args) ELSE <<>>)
            \o CornerWords(Tail(lines))

RECURSIVE FaceCorners(_)
\* The corner words the specification asks for: (c0, c1, c2) for a face of
\* three corners, (c0, c1, c2) and (c0, c2, c3) for one of four.
FaceCorners(lines) ==
    IF lines = <<>> THEN <<>>
    ELSE LET a == Head(lines).args
         IN (IF Head(lines).prefix # "f" THEN <<>>
             ELSE IF Len(a) = 4 THEN <<a[1], a[2], a[3], a[1], a[3], a[4]>>
             ELSE <<a[1], a[2], a[3]>>)
            \o FaceCorners(Tail(lines))

\* The number a corner word's k-th field spells.
OwnIndex(word, k) == ScanInt(Field(word, k)).val
HasField(word, k) == Field(word, k) # <<>>

FaceLinesOf(lines) == {k \in 1..Len(lines) : lines[k].prefix = "f"}
CountOf(lines, prefix) == Cardinality({k \in 1..Len(lines) : lines[k].prefix = prefix})

\* Corners whose position index is 0, negative or past the pool.
BadCorners == {i \in 1..Len(vertexIndices) : ~PositionValid(Loaded, i)}

\* C1: after loadOBJ and main's synthesis step the normal buffer is as long
\* as the position buffer, and the UV buffer is empty or as long as it
\* (for the UV buffer, from loadOBJ's return on).
C1_BufferLengths ==
    /\ AfterLoad \/ AfterNormals => Len(uvs) \in {0, Len(vertices)}
    /\ AfterNormals => Len(normals) = Len(vertices)

\* A file with UV indices and no vt record, a dropped corner and corners
\* with and without a normal index, after the synthesis step.
C1_Witness ==
    /\ pc = "upload"
    /\ temp_uvs = <<>> /\ uvIndices # <<>>
    /\ BadCorners # {} /\ vertices # <<>>
    /\ normalIndices # <<>> /\ Len(normalIndices) < Len(vertexIndices)

\* C2: the flattener attaches a normal to corner i only when corner i's own
\* normal index is present and in range, and then it is that normal.
C2_OwnNormalOnly ==
    AfterLoad =>
        \A i \in 1..Len(vertexIndices) :
            PositionValid(Loaded, i) /\ NormalResolved(Loaded, i) =>
                LET w == CornerWords(file)[i]
                IN /\ HasField(w, 3)
                   /\ OwnIndex(w, 3) \in 1..Len(temp_normals)
                   /\ NormalsForCorner(Loaded, i)
                        = <<RawNormal(temp_normals[OwnIndex(w, 3)])>>

\* A mesh of triangles in which every corner names a position and a normal
\* that exist (and which has a corner at all).
ExplicitNormalsMesh ==
    /\ CornerWords(file) # <<>>
    /\ \A k \in FaceLinesOf(file) : Len(file[k].args) = 3
    /\ \A i \in 1..Len(CornerWords(file)) :
          LET w == CornerWords(file)[i]
          IN /\ ScanInt(Field(w, 1)).ok
             /\ OwnIndex(w, 1) \in 1..CountOf(file, "v")
             /\ ScanInt(Field(w, 3)).ok
             /\ OwnIndex(w, 3) \in 1..CountOf(file, "vn")

\* C3: for a triangle mesh whose corners all carry a valid normal index the
\* normal buffer is the file's referenced normals, corner by corner, and
\* calculateSmoothNormals is not invoked.
C3_ExplicitNormalsKept ==
    AfterNormals /\ ExplicitNormalsMesh =>
        /\ ~synthCalled
        /\ Len(vertices) = Len(CornerWords(file))
        /\ Len(normals) = Len(CornerWords(file))
        /\ \A i \in 1..Len(CornerWords(file)) :
              LET w == CornerWords(file)[i]
              IN /\ vertices[i] = temp_vertices[OwnIndex(w, 1)]
                 /\ normals[i] = RawNormal(temp_normals[OwnIndex(w, 3)])

\* Two faces and two different normals in the buffer.
C3_Witness ==
    /\ pc = "upload"
    /\ ExplicitNormalsMesh
    /\ Len(normals) = 6
    /\ \E i, j \in 1..Len(normals) : normals[i] # normals[j]

\* The buffers after corners 1..k only.
FlattenUpTo(st, k) == Flatten([st EXCEPT !.vi = SubSeq(st.vi, 1, k)])

\* s without the n entries that follow its first off entries.
Without(s, off, n) == SubSeq(s, 1, off) \o SubSeq(s, off + n + 1, Len(s))

RECURSIVE GoodPositions(_, _)
\* The positions the corner words from the i-th on name, bad ones left out.
GoodPositions(words, i) ==
    IF i > Len(words) THEN <<>>
    ELSE (IF i \in BadCorners THEN <<>>
          ELSE <<temp_vertices[OwnIndex(words[i], 1)]>>)
         \o GoodPositions(words, i + 1)

\* C4: a corner whose position index is 0, negative or past the pool is
\* dropped, one vertex per such corner; the other corners are emitted in
\* order with the position, UV and normal they have when the bad index is
\* replaced by any good one; the load does not fail.
C4_BadCornerDropped ==
    AfterLoad =>
        /\ Len(vertices) = Len(vertexIndices) - Cardinality(BadCorners)
        /\ vertices = GoodPositions(CornerWords(file), 1)
        /\ \A k \in BadCorners :
           \A g \in 1..Len(temp_vertices) :
           \A alt \in {[Loaded EXCEPT !.vi[k] = ToUnsigned(g)]} :
           \A all \in {Flatten(alt)} :
           \A before \in {FlattenUpTo(Loaded, k - 1)} :
           \A mine \in {FlattenCorner(alt, k)} :
              /\ Len(mine.v) = 1
              /\ vertices = Without(all.v, Len(before.v), 1)
              /\ uvs = Without(all.t, Len(before.t), Len(mine.t))
              /\ normals = Without(all.n, Len(before.n), Len(mine.n))

\* A loaded file with an index 0 and a negative index among corners that are
\* kept, with UVs and normals in the output.
C4_Witness ==
    /\ AfterLoad
    /\ \E i \in BadCorners : vertexIndices[i] = [hi |-> 0, lo |-> 0]
    /\ \E i \in BadCorners : vertexIndices[i].hi = 1
    /\ vertices # <<>> /\ uvs # <<>> /\ normals # <<>>

\* C5: a face of four corners yields the triangles (c0, c1, c2) and
\* (c0, c2, c3), one of three corners the triangle (c0, c1, c2), faces in
\* file order; with every index in range the flat positions are those of
\* these corners.
C5_QuadSplit ==
    AfterLoad /\ (\A k \in FaceLinesOf(file) : Len(file[k].args) \in {3, 4}) =>
        \A want \in {FaceCorners(file)} :
            /\ Len(vertexIndices) = Len(want)
            /\ \A i \in 1..Len(want) :
                  vertexIndices[i] = ToUnsigned(OwnIndex(want[i], 1))
            /\ BadCorners = {} =>
                  /\ Len(vertices) = Len(want)
                  /\ \A i \in 1..Len(want) :
                        vertices[i] = temp_vertices[OwnIndex(want[i], 1)]

\* Four positions and the face f 1 2 3 4: six flat positions, 1 2 3 1 3 4.
C5_Witness ==
    /\ AfterLoad
    /\ file = Header(4, 0, 0) \o FaceLines(<<<<P(1), P(2), P(3), P(4)>>>>)
    /\ vertices = <<PoolPosition(1), PoolPosition(2), PoolPosition(3),
                    PoolPosition(1), PoolPosition(3), PoolPosition(4)>>

\* C6 as stated: after calculateSmoothNormals every flat vertex whose own
\* accumulated face-normal sum is not zero has a unit normal.
C6_UnitWhenOwnSumNonZero ==
    AfterNormals /\ synthCalled =>
        \A acc \in {FaceNormalSums(vertices)} :
        \A i \in 1..Len(vertices) :
            acc[i] # Zero3 => IsUnit(normals[i])

\* C6 as amended: after calculateSmoothNormals every flat vertex has a unit
\* normal when the accumulated face normals of the flat vertices at its
\* position add up to a non-zero vector, and the normalisation of the zero
\* vector (not a number) when they add up to zero.
C6_UnitWhenPositionSumNonZero ==
    AfterNormals /\ synthCalled =>
        \A acc \in {FaceNormalSums(vertices)} :
        \A i \in 1..Len(vertices) :
        \A sum \in {SumOver(acc, SamePosition(vertices, i))} :
            /\ sum # Zero3 => IsUnit(normals[i])
            /\ sum = Zero3 => IsNotANumber(normals[i])

\* Synthesised normals where one position's sums cancel and another
\* position, shared by two flat vertices and summing to a vector that is
\* not of length one, gets a unit normal.
C6_Witness ==
    /\ pc = "upload" /\ synthCalled
    /\ \E acc \in {FaceNormalSums(vertices)} :
          /\ \E i \in 1..Len(vertices) :
                /\ acc[i] # Zero3
                /\ SumOver(acc, SamePosition(vertices, i)) = Zero3
                /\ IsNotANumber(normals[i])
          /\ \E i \in 1..Len(vertices) :
                /\ Cardinality(SamePosition(vertices, i)) > 1
                /\ Dot3(normals[i].dir, normals[i].dir) > 1
                /\ IsUnit(normals[i])

\* C7: rotationX stays within [-89, 89] and the camera distance within
\* [0.5, 10.0], whatever events arrive; a scroll that asks for more zoom-in
\* than the distance left above 0.5 leaves it at exactly 0.5.
C7_ViewStateClamped ==
    /\ rotationX >= 0 - RotXMax /\ rotationX <= RotXMax
    /\ cameraPosZ >= ZoomMin /\ cameraPosZ <= ZoomMax
    /\ lastEvent = <<"scroll", 50>> => cameraPosZ = ZoomMin

\* A drag past the lower bound of rotationX, then a large zoom-in.
C7_Witness ==
    /\ rotationX = 0 - RotXMax
    /\ lastEvent = <<"scroll", 50>>
    /\ cameraPosZ = ZoomMin

\* The pointer moved by (curX' - curX, curY' - curY) and the rotation
\* followed it: half the horizontal move added to rotationY, half the
\* vertical move added to rotationX and the sum clamped.
DragApplied ==
    /\ 2 * rotationY' = 2 * rotationY + 10 * (curX' - curX)
    /\ \A want \in {2 * rotationX + 10 * (curY' - curY)} :
          2 * rotationX' = IF want > 2 * RotXMax THEN 2 * RotXMax
                           ELSE IF want < 0 - 2 * RotXMax THEN 0 - 2 * RotXMax
                           ELSE want

MotionDelivered == eventCount' = eventCount + 1 /\ lastEvent' = <<"motion">>

\* C8 as stated: every pointer-motion event delivered while the left button
\* is held applies the drag.
C8_EveryHeldMotionRotates ==
    [][MotionDelivered /\ mousePressed => DragApplied]_vars

\* C8 as amended: every pointer-motion event delivered while the left
\* button is held, other than the first one after the button was pressed,
\* applies the drag (the first one only records where the pointer is).
C8_HeldMotionAfterFirstRotates ==
    [][/\ MotionDelivered /\ mousePressed /\ ~firstMouse => DragApplied
       /\ MotionDelivered /\ mousePressed /\ firstMouse =>
             /\ rotationX' = rotationX /\ rotationY' = rotationY
             /\ ~firstMouse' /\ lastX' = curX' /\ lastY' = curY']_vars

\* The button is held, the first motion is past, and a drag of (100, 0) has
\* moved rotationY by 50 degrees and left rotationX alone.
C8_Witness ==
    /\ mousePressed /\ ~firstMouse
    /\ lastEvent = <<"motion">>
    /\ eventCount = 3
    /\ rotationY = 500 /\ rotationX = 0
    /\ lastX = curX /\ lastY = curY

\* The resources that exist or have existed.
EverCreated == gpuLive \cup {r \in Resources : releaseCount[r] > 0}

CannotOpenReported ==
    \E k \in 1..Len(stderrLog) : stderrLog[k] = "Cannot open file"

\* C9 as stated: when the file cannot be opened the process reports it on
\* standard error and exits non-zero with no window, shader program,
\* vertex array or buffer ever created.
C9_NoGpuResourceBeforeOpenFailure ==
    CannotOpenReported =>
        /\ pc = "exited" /\ exitStatus = "exit(-1)"
        /\ EverCreated \cap {"window", "shaderProgram", "vao", "vbo", "nbo"} = {}

\* C9 as amended: when the file cannot be opened the process reports it on
\* standard error and exits non-zero before the vertex array and the two
\* buffers are created, but after the window (with its context) and the
\* shader program were, which it leaves unreleased.
C9_OpenFailureBeforeBuffersOnly ==
    CannotOpenReported =>
        /\ pc = "exited" /\ exitStatus = "exit(-1)"
        /\ stderrLog = <<"Cannot open file", "Failed to load OBJ file">>
        /\ EverCreated \cap {"vao", "vbo", "nbo"} = {}
        /\ {"glfw", "window", "shaderProgram"} \subseteq gpuLive
        /\ \A r \in Resources : releaseCount[r] = 0
        /\ framesDrawn = 0

C9_Witness ==
    /\ CannotOpenReported
    /\ pc = "exited"
    /\ gpuLive = {"glfw", "window", "shaderProgram"}

\* A word that std::stoi rejects: no integer at its start, or one too big.
NoLeadingInt(word) == ~ScanInt(word).ok \/ ScanInt(word).big

\* A word that is not a number from end to end.
NotANumber(word) == NoLeadingInt(word) \/ ScanInt(word).rest # <<>>

\* A corner word with an index field std::stoi rejects (the position field,
\* or a texture or normal field that is not empty).
BadCornerWord(word) ==
    \/ NoLeadingInt(Field(word, 1))
    \/ HasField(word, 2) /\ NoLeadingInt(Field(word, 2))
    \/ HasField(word, 3) /\ NoLeadingInt(Field(word, 3))

\* Some corner the parser reads (a missing one is an empty word) is bad.
HasBadFaceField(lines) ==
    \E i \in 1..Len(CornerWords(lines)) : BadCornerWord(CornerWords(lines)[i])

\* Some coordinate of a v, vt or vn record is missing or not a number.
HasBadCoordinate(lines) ==
    \E k \in 1..Len(lines) :
        /\ lines[k].prefix \in {"v", "vt", "vn"}
        /\ \E n \in {IF lines[k].prefix = "vt" THEN 2 ELSE 3} :
              \/ Len(lines[k].args) < n
              \/ \E j \in 1..n : NotANumber(lines[k].args[j])

FileRead == pc = "aborted" \/ AfterLoad \/ AfterNormals

NothingProduced ==
    /\ vertices = <<>> /\ normals = <<>> /\ uvs = <<>>
    /\ framesDrawn = 0
    /\ EverCreated \cap {"vao", "vbo", "nbo"} = {}

\* C10 as stated: a file with a coordinate or an index field that is not a
\* number aborts the load: no buffers, no render loop.
C10_AnyBadNumberAborts ==
    FileRead /\ (HasBadFaceField(file) \/ HasBadCoordinate(file)) =>
        pc = "aborted" /\ NothingProduced

\* C10 as amended: the load aborts (std::stoi throws and nothing catches
\* it: the process is terminated, no flat buffer is produced and the render
\* loop is never entered) exactly when an index field of a face corner the
\* parser reads has no integer at its start; a coordinate of a v, vt or vn
\* record that is not a number does not abort it: the record is still
\* appended to its pool and the load carries on.
C10_BadIndexAbortsBadCoordinateDoesNot ==
    FileRead =>
        /\ HasBadFaceField(file) <=> pc = "aborted"
        /\ pc = "aborted" => exitStatus = "terminate" /\ NothingProduced
        /\ pc # "aborted" =>
              /\ Len(temp_vertices) = CountOf(file, "v")
              /\ Len(temp_uvs) = CountOf(file, "vt")
              /\ Len(temp_normals) = CountOf(file, "vn")

\* A file with a coordinate that is not a number has reached the render
\* loop with its buffers filled and a frame drawn.
C10_Witness ==
    /\ pc = "pollEvents"
    /\ HasBadCoordinate(file) /\ ~HasBadFaceField(file)
    /\ Len(vertices) = 3 /\ framesDrawn = 1

\* The Esc press has been handled by key_callback.
EscapeHandled == windowShouldClose

\* main has returned 0 with every resource released exactly once.
ReleasedOnceAndReturnedZero ==
    /\ pc = "exited" /\ exitStatus = "exit(0)"
    /\ gpuLive = {}
    /\ \A r \in Resources : releaseCount[r] = 1

\* C11: an Esc press sets the close flag and nothing clears it; once it is
\* set no further frame is drawn; the loop is left at its next test and
\* main then releases the vertex array, both buffers, the shader program
\* and the window system, each exactly once, and returns 0.
C11_EscapeStopsFramesAndCleansUpOnce ==
    /\ [][/\ lastEvent' = <<"key", "ESCAPE", "PRESS">> /\ eventCount' # eventCount
              => windowShouldClose'
          /\ EscapeHandled => windowShouldClose' /\ framesDrawn' = framesDrawn
          /\ EscapeHandled /\ pc = "loopTop" => pc' = "cleanup"]_vars
    /\ [](\A r \in Resources : releaseCount[r] <= 1)
    /\ [](pc = "exited" /\ exitStatus = "exit(0)" => ReleasedOnceAndReturnedZero)
    /\ (EscapeHandled ~> ReleasedOnceAndReturnedZero)

\* Esc was pressed after one frame, another event followed it in the same
\* poll, and main has returned 0 with everything released once.
C11_Witness ==
    /\ ReleasedOnceAndReturnedZero
    /\ EscapeHandled
    /\ framesDrawn = 1
    /\ lastEvent = <<"motion">>
    /\ eventCount >= 2

RECURSIVE KeptCorners(_, _)
\* The corners (numbered as parsed, three per triangle) whose position the
\* flattener emitted, in order: flat vertex j is corner KeptCorners[j].
KeptCorners(st, i) ==
    IF i > Len(st.vi) THEN <<>>
    ELSE (IF PositionValid(st, i) THEN <<i>> ELSE <<>>) \o KeptCorners(st, i + 1)

\* The first flat vertex of each group of three that lines 510-511 of
\* calculateSmoothNormals turn into a face normal.
NormalGroups(n) == {i \in 1..n : i % 3 = 1 /\ i + 2 <= n}

\* Corners a, b, c are the three corners of one triangle of the flattener.
OneTriangle(a, b, c) == a % 3 = 1 /\ b = a + 1 /\ c = a + 2

\* C12: every group of three flat positions that calculateSmoothNormals
\* turns into a face normal is the three corners of one triangle of the
\* flattener, also when a corner was dropped.
C12_GroupsAreTriangles ==
    AfterNormals /\ synthCalled =>
        \A kept \in {KeptCorners(Loaded, 1)} :
            /\ Len(kept) = Len(vertices)
            /\ \A i \in NormalGroups(Len(vertices)) :
                  OneTriangle(kept[i], kept[i + 1], kept[i + 2])

=============================================================================
